---- MODULE Spec2Model ----
(***************************************************************************)
(* FluidSimulator (natrix/core/fluid_simulator_bgfx.py): the per-tick      *)
(* dispatch scheduler, the velocity / pressure buffer rotation, the        *)
(* validated tunables and the backend handle lifecycle.                    *)
(*                                                                         *)
(* The bgfx backend is represented by what the simulator does to it: the   *)
(* slot binding table, the contents of the obstacles buffer, the number of *)
(* destroy calls per handle, and the ordered list of backend calls issued  *)
(* by the most recent public call (trace).  Every public method is one     *)
(* action that runs the whole method body, exceptions included.            *)
(*                                                                         *)
(* Python numbers are exact rationals n/d here; the binary rounding of     *)
(* float and of astype(np.float32) is not represented.                     *)
(***************************************************************************)
EXTENDS Integers, Sequences, FiniteSets

(* ---------------------------- bounds ----------------------------------- *)
\* largest iteration count offered to the iterations setter (the smallest is 0)
MaxIterations == 1
\* number of update calls followed while simulate is enabled
MaxTicks == 2

(* --------------------------- Python values ----------------------------- *)
Float(n, d) == [type |-> "float", n |-> n, d |-> d]
Tuple(xs) == [type |-> "tuple", items |-> xs]
Zero == Float(0, 1)

\* numbers a caller passes to the setters that require value > 0, and to the vorticity
\* setter, which requires value >= 0
Numbers == {Zero, Float(1, 1)}
VorticityScales == {Float(-1, 1), Zero, Float(1, 1)}
IterationCounts == 0..MaxIterations
Positions == {Tuple(<<Float(1, 4), Float(1, 2)>>)}
Triangles == {<<Tuple(<<Float(0, 1), Float(0, 1)>>), Tuple(<<Float(1, 1), Float(1, 2)>>),
                Tuple(<<Float(0, 1), Float(1, 1)>>)>>}
\* velocity is annotated as a tuple; a bare number is what the marshalling accepts
Velocities == {Tuple(<<Float(1, 1), Float(0, 1)>>), Float(1, 1)}
Radii == {Float(1, 1)}
TimeDeltas == {Float(1, 60)}
\* (width, height) given to the constructor
Sizes == {<<512, 512>>, <<500, 300>>}
\* grid widths and heights for the numerical checks
MaxWidth == 17
Widths == (1..MaxWidth) \cup {500, 512}
Heights == {1, 300, 512}
\* tile sizes the group count is computed for
MaxTile == 17
\* viscosities for the numerical checks
Viscosities == {Zero, Float(1, 10), Float(1, 1), Float(3, 2)}

\* TemplateConstants.NUM_THREADS.value
NUM_THREADS == 16

(* ------------------------------ state ---------------------------------- *)
VARIABLES
    _width, _height, _num_cells, _num_groups_x, _num_groups_y,
    _speed, _iterations, _dissipation, _vorticity, _viscosity,
    simulate,
    VELOCITY_READ, VELOCITY_WRITE, PRESSURE_READ, PRESSURE_WRITE,
    slots,       \* backend binding table: slot -> [buffer, access]
    obstacles,   \* contents of _obstacles_buffer: the obstacle writes since its last clear
    destroyed,   \* handle -> number of bgfx.destroy calls on it
    trace,       \* backend calls issued by the most recent public call
    call,        \* the most recent public call and how it ended
    ticks        \* number of update calls made so far while simulate was enabled

geometry == <<_width, _height, _num_cells, _num_groups_x, _num_groups_y>>
tunables == <<_speed, _iterations, _dissipation, _vorticity, _viscosity>>
roles == <<VELOCITY_READ, VELOCITY_WRITE, PRESSURE_READ, PRESSURE_WRITE>>
vars == <<geometry, tunables, simulate, roles, slots, obstacles, destroyed, trace, call, ticks>>

(* ------------------------- backend handles ----------------------------- *)
Uniforms == <<"size_uniform", "position_uniform", "radius_uniform", "value_uniform",
              "static_uniform", "p1_uniform", "p2_uniform", "p3_uniform",
              "elapsed_time_uniform", "speed_uniform", "dissipation_uniform",
              "velocity_uniform", "vorticity_scale_uniform", "alpha_uniform",
              "rbeta_uniform">>

_velocity_buffer == <<"velocity0", "velocity1">>
_pressure_buffer == <<"pressure0", "pressure1">>
_divergence_buffer == "divergence"
_vorticity_buffer == "vorticity"
_obstacles_buffer == "obstacles"
Buffers == _velocity_buffer \o _pressure_buffer
             \o <<_divergence_buffer, _vorticity_buffer, _obstacles_buffer>>

Kernels == <<"AddVelocity", "InitBoundaries", "AdvectVelocity", "Divergence", "Poisson",
             "SubtractGradient", "CalcVorticity", "ApplyVorticity", "AddCircleObstacle",
             "AddTriangleObstacle", "ClearBuffer", "Viscosity">>

Range(s) == {s[i] : i \in DOMAIN s}
Handles == Range(Uniforms) \cup Range(Buffers) \cup Range(Kernels)

Slots == {"VELOCITY_IN", "VELOCITY_OUT", "PRESSURE_IN", "PRESSURE_OUT",
          "DIVERGENCE", "VORTICITY", "OBSTACLES", "GENERIC"}
Unbound == [buffer |-> "none", access |-> "none"]

(* --------------------- the state a method works on --------------------- *)
\* the mutable part of the object and of the backend, threaded through a method body;
\* exc is the exception that ended the body, "none" while it is running
Machine == [VELOCITY_READ |-> VELOCITY_READ, VELOCITY_WRITE |-> VELOCITY_WRITE,
            PRESSURE_READ |-> PRESSURE_READ, PRESSURE_WRITE |-> PRESSURE_WRITE,
            slots |-> slots, obstacles |-> obstacles, destroyed |-> destroyed,
            trace |-> <<>>, exc |-> "none"]

\* a group count that rounds down
ceil_div_floor(a, b) == a \div b

\* ceil(float(a) / float(b)) for a >= 0, b > 0
ceil_div(a, b) == IF a % b = 0 THEN a \div b ELSE (a \div b) + 1

\* np.array([...]).astype(np.float32).tobytes(): four numbers, or ValueError when an
\* element is itself a sequence
np_array(xs) == IF \A i \in DOMAIN xs : xs[i].type = "float"
                THEN [ok |-> TRUE, data |-> xs]
                ELSE [ok |-> FALSE, data |-> <<>>]

(* ------------------------- backend primitives -------------------------- *)
\* bgfx.setUniform(handle, as_void_ptr(payload)); the payload is built first and
\* its ValueError leaves the uniform unwritten
setUniform(m, uniform, xs) ==
    IF m.exc # "none" THEN m
    ELSE IF ~np_array(xs).ok THEN [m EXCEPT !.exc = "ValueError"]
    ELSE [m EXCEPT !.trace = Append(@, [ev |-> "setUniform", uniform |-> uniform,
                                        value |-> np_array(xs).data])]

\* bgfx.setBuffer(slot, buffer, access)
setBuffer(m, slot, buffer, access) ==
    IF m.exc # "none" THEN m
    ELSE [m EXCEPT !.slots[slot] = [buffer |-> buffer, access |-> access],
                   !.trace = Append(@, [ev |-> "setBuffer", slot |-> slot,
                                        buffer |-> buffer, access |-> access])]

\* what a kernel does to the obstacles buffer: the obstacle kernels add a write to the
\* buffer bound to OBSTACLES, ClearBuffer zeroes the buffer bound to GENERIC
KernelEffect(m, kernel) ==
    IF kernel \in {"AddCircleObstacle", "AddTriangleObstacle"}
         /\ m.slots["OBSTACLES"].buffer = _obstacles_buffer
    THEN m.obstacles \cup {ticks}
    ELSE IF kernel = "ClearBuffer" /\ m.slots["GENERIC"].buffer = _obstacles_buffer
    THEN {}
    ELSE m.obstacles

\* bgfx.dispatch(0, kernel, self._num_groups_x, self._num_groups_y, 1); the event keeps
\* the bindings, the role indices and the obstacles contents the kernel runs against
dispatch(m, kernel) ==
    IF m.exc # "none" THEN m
    ELSE [m EXCEPT !.obstacles = KernelEffect(m, kernel),
                   !.trace = Append(@, [ev |-> "dispatch", kernel |-> kernel,
                                        groups |-> <<_num_groups_x, _num_groups_y, 1>>,
                                        bound |-> m.slots,
                                        VELOCITY_READ |-> m.VELOCITY_READ,
                                        VELOCITY_WRITE |-> m.VELOCITY_WRITE,
                                        PRESSURE_READ |-> m.PRESSURE_READ,
                                        PRESSURE_WRITE |-> m.PRESSURE_WRITE,
                                        obstacles |-> m.obstacles])]

\* self._subtract_gradient_kernel.run(...): the kernel is the handle returned by
\* bgfx.createProgram, which has no run attribute, so the call raises AttributeError
kernel_run(m, kernel) ==
    IF m.exc # "none" THEN m
    ELSE [m EXCEPT !.exc = "AttributeError"]

\* bgfx.destroy(handle)
destroy(m, handle) ==
    IF m.exc # "none" THEN m
    ELSE [m EXCEPT !.destroyed[handle] = @ + 1,
                   !.trace = Append(@, [ev |-> "destroy", handle |-> handle])]

(* ------------------------- buffer rotation ----------------------------- *)
\* the role indices are object fields, not backend state: a swap is recorded in the
\* trace so that its place among the backend calls can be read off
swapped(m, name) == [m EXCEPT !.trace = Append(@, [ev |-> "swap", name |-> name])]

\* a flip that exchanges the roles and leaves the slots bound as they were
\* a flip that copies WRITE into READ and never stores the saved READ into WRITE
_flip_velocity_buffer_read_only(m) ==
    IF m.exc # "none" THEN m
    ELSE LET fr1 == swapped([m EXCEPT !.VELOCITY_READ = m.VELOCITY_WRITE], "swap_velocity")
             fr2 == setBuffer(fr1, "VELOCITY_IN", _velocity_buffer[fr1.VELOCITY_READ + 1], "Read")
         IN  setBuffer(fr2, "VELOCITY_OUT", _velocity_buffer[fr2.VELOCITY_WRITE + 1], "Write")

\* a flip that swaps the roles and leaves the slots bound as they were
_flip_velocity_buffer_norebind(m) ==
    IF m.exc # "none" THEN m
    ELSE LET tmp == m.VELOCITY_READ
         IN  swapped([m EXCEPT !.VELOCITY_READ = m.VELOCITY_WRITE, !.VELOCITY_WRITE = tmp],
                     "swap_velocity")

_flip_velocity_buffer(m) ==
    IF m.exc # "none" THEN m
    ELSE LET tmp == m.VELOCITY_READ
             fv1 == swapped([m EXCEPT !.VELOCITY_READ = m.VELOCITY_WRITE,
                                      !.VELOCITY_WRITE = tmp], "swap_velocity")
             fv2 == setBuffer(fv1, "VELOCITY_IN", _velocity_buffer[fv1.VELOCITY_READ + 1], "Read")
         IN  setBuffer(fv2, "VELOCITY_OUT", _velocity_buffer[fv2.VELOCITY_WRITE + 1], "Write")

\* a flip that copies WRITE into READ and forgets to store the saved READ into WRITE
_flip_pressure_buffer_nowrite(m) ==
    IF m.exc # "none" THEN m
    ELSE LET fq1 == swapped([m EXCEPT !.PRESSURE_READ = m.PRESSURE_WRITE], "swap_pressure")
             fq2 == setBuffer(fq1, "PRESSURE_IN", _pressure_buffer[fq1.PRESSURE_READ + 1], "Read")
         IN  setBuffer(fq2, "PRESSURE_OUT", _pressure_buffer[fq2.PRESSURE_WRITE + 1], "Write")

_flip_pressure_buffer(m) ==
    IF m.exc # "none" THEN m
    ELSE LET tmp == m.PRESSURE_READ
             fp1 == swapped([m EXCEPT !.PRESSURE_READ = m.PRESSURE_WRITE,
                                      !.PRESSURE_WRITE = tmp], "swap_pressure")
             fp2 == setBuffer(fp1, "PRESSURE_IN", _pressure_buffer[fp1.PRESSURE_READ + 1], "Read")
         IN  setBuffer(fp2, "PRESSURE_OUT", _pressure_buffer[fp2.PRESSURE_WRITE + 1], "Write")

(* ----------------------------- methods --------------------------------- *)
\* a parameter upload whose stencil factor is taken from viscosity instead of centre_factor
_update_params_stencil_of_viscosity(m, time_delta) ==
    LET uq1 == setUniform(m, "elapsed_time_uniform", <<time_delta, Zero, Zero, Zero>>)
        uq2 == setUniform(uq1, "speed_uniform", <<_speed, Zero, Zero, Zero>>)
        uq3 == setUniform(uq2, "dissipation_uniform", <<_dissipation, Zero, Zero, Zero>>)
        uq4 == setUniform(uq3, "vorticity_scale_uniform", <<_vorticity, Zero, Zero, Zero>>)
    IN  IF _viscosity.n = 0 THEN [uq4 EXCEPT !.exc = "ZeroDivisionError"]
        ELSE LET centre_factor == Float(_viscosity.d, _viscosity.n)
                 stencil_factor == Float(_viscosity.d, 4 * _viscosity.d + _viscosity.n)
                 uq5 == setUniform(uq4, "alpha_uniform", <<centre_factor, Zero, Zero, Zero>>)
             IN  setUniform(uq5, "rbeta_uniform", <<stencil_factor, Zero, Zero, Zero>>)

_update_params(m, time_delta) ==
    LET up1 == setUniform(m, "elapsed_time_uniform", <<time_delta, Zero, Zero, Zero>>)
        up2 == setUniform(up1, "speed_uniform", <<_speed, Zero, Zero, Zero>>)
        up3 == setUniform(up2, "dissipation_uniform", <<_dissipation, Zero, Zero, Zero>>)
        up4 == setUniform(up3, "vorticity_scale_uniform", <<_vorticity, Zero, Zero, Zero>>)
    IN  IF _viscosity.n = 0 THEN [up4 EXCEPT !.exc = "ZeroDivisionError"]
        ELSE LET centre_factor == Float(_viscosity.d, _viscosity.n)
                 stencil_factor == Float(centre_factor.d,
                                         4 * centre_factor.d + centre_factor.n)
                 up5 == setUniform(up4, "alpha_uniform", <<centre_factor, Zero, Zero, Zero>>)
             IN  setUniform(up5, "rbeta_uniform", <<stencil_factor, Zero, Zero, Zero>>)

\* for _ in range(n): dispatch Viscosity, flip velocity
\* (n passes in sequence, evaluated as the first n \div 2 passes followed by the rest)
RECURSIVE viscosity_loop(_, _)
viscosity_loop(m, n) ==
    IF n <= 0 THEN m
    ELSE IF n = 1 THEN _flip_velocity_buffer(dispatch(m, "Viscosity"))
    ELSE LET half == n \div 2
             mid == viscosity_loop(m, half)
         IN  IF mid.exc # "none" THEN mid ELSE viscosity_loop(mid, n - half)

\* for _ in range(n): dispatch Poisson, flip pressure
RECURSIVE poisson_loop(_, _)
poisson_loop(m, n) ==
    IF n <= 0 THEN m
    ELSE IF n = 1 THEN _flip_pressure_buffer(dispatch(m, "Poisson"))
    ELSE LET half == n \div 2
             mid == poisson_loop(m, half)
         IN  IF mid.exc # "none" THEN mid ELSE poisson_loop(mid, n - half)

\* the body of update under `if self.simulate:`
\* a tick whose pressure clear targets the WRITE buffer
tick_clears_pressure_write(m, time_delta) ==
    LET tw1 == _update_params(m, time_delta)
        tw2 == dispatch(tw1, "InitBoundaries")
        tw3 == _flip_velocity_buffer(dispatch(tw2, "AdvectVelocity"))
        tw4 == dispatch(tw3, "CalcVorticity")
        tw5 == _flip_velocity_buffer(dispatch(tw4, "ApplyVorticity"))
        tw6 == IF _viscosity.n > 0 THEN viscosity_loop(tw5, _iterations) ELSE tw5
        tw7 == dispatch(tw6, "Divergence")
        tw8 == setBuffer(tw7, "GENERIC", _pressure_buffer[tw7.PRESSURE_WRITE + 1], "WRITE")
        tw9 == dispatch(tw8, "ClearBuffer")
        tw10 == setBuffer(tw9, "PRESSURE_IN", _pressure_buffer[tw9.PRESSURE_READ + 1], "READ")
        tw11 == poisson_loop(tw10, _iterations)
        tw12 == _flip_velocity_buffer(kernel_run(tw11, "SubtractGradient"))
        tw13 == setBuffer(tw12, "GENERIC", _obstacles_buffer, "WRITE")
        tw14 == dispatch(tw13, "ClearBuffer")
    IN  setBuffer(tw14, "OBSTACLES", _obstacles_buffer, "WRITE")

tick(m, time_delta) ==
    LET s1 == _update_params(m, time_delta)
        s2 == dispatch(s1, "InitBoundaries")
        s3 == _flip_velocity_buffer(dispatch(s2, "AdvectVelocity"))
        s4 == dispatch(s3, "CalcVorticity")
        s5 == _flip_velocity_buffer(dispatch(s4, "ApplyVorticity"))
        s6 == IF _viscosity.n > 0 THEN viscosity_loop(s5, _iterations) ELSE s5
        s7 == dispatch(s6, "Divergence")
        s8 == setBuffer(s7, "GENERIC", _pressure_buffer[s7.PRESSURE_READ + 1], "WRITE")
        s9 == dispatch(s8, "ClearBuffer")
        s10 == setBuffer(s9, "PRESSURE_IN", _pressure_buffer[s9.PRESSURE_READ + 1], "READ")
        s11 == poisson_loop(s10, _iterations)
        s12 == _flip_velocity_buffer(kernel_run(s11, "SubtractGradient"))
        s13 == setBuffer(s12, "GENERIC", _obstacles_buffer, "WRITE")
        s14 == dispatch(s13, "ClearBuffer")
    IN  setBuffer(s14, "OBSTACLES", _obstacles_buffer, "WRITE")

\* a tick that does not look at the simulate flag
update_body_ungated(m, time_delta) == tick(m, time_delta)

update_body(m, time_delta) == IF simulate THEN tick(m, time_delta) ELSE m

add_velocity_body(m, position, velocity, radius) ==
    LET av1 == setUniform(m, "position_uniform",
                         <<position.items[1], position.items[2], Zero, Zero>>)
        av2 == setUniform(av1, "velocity_uniform", <<velocity, Zero, Zero, Zero>>)
        av3 == setUniform(av2, "radius_uniform", <<radius, Zero, Zero, Zero>>)
    IN  _flip_velocity_buffer(dispatch(av3, "AddVelocity"))

\* an obstacle call that swaps the velocity roles as add_velocity does
add_circle_obstacle_body_flipping(m, position, radius, static) ==
    LET af1 == setUniform(m, "position_uniform",
                          <<position.items[1], position.items[2], Zero, Zero>>)
        af2 == setUniform(af1, "radius_uniform", <<radius, Zero, Zero, Zero>>)
        af3 == setUniform(af2, "static_uniform",
                          <<IF static THEN Float(1, 1) ELSE Zero, Zero, Zero, Zero>>)
    IN  _flip_velocity_buffer(dispatch(af3, "AddCircleObstacle"))

add_circle_obstacle_body(m, position, radius, static) ==
    LET ac1 == setUniform(m, "position_uniform",
                         <<position.items[1], position.items[2], Zero, Zero>>)
        ac2 == setUniform(ac1, "radius_uniform", <<radius, Zero, Zero, Zero>>)
        ac3 == setUniform(ac2, "static_uniform",
                         <<IF static THEN Float(1, 1) ELSE Zero, Zero, Zero, Zero>>)
    IN  dispatch(ac3, "AddCircleObstacle")

add_triangle_obstacle_body(m, p1, p2, p3, static) ==
    LET at1 == setUniform(m, "p1_uniform", <<p1.items[1], p2.items[2], Zero, Zero>>)
        at2 == setUniform(at1, "p2_uniform", <<p2.items[1], p2.items[2], Zero, Zero>>)
        at3 == setUniform(at2, "p3_uniform", <<p3.items[1], p3.items[2], Zero, Zero>>)
        at4 == setUniform(at3, "static_uniform",
                         <<IF static THEN Float(1, 1) ELSE Zero, Zero, Zero, Zero>>)
    IN  dispatch(at4, "AddTriangleObstacle")

\* the handles __del__ destroys, in the order it destroys them
del_uniforms == <<"size_uniform", "position_uniform", "radius_uniform", "value_uniform",
                  "static_uniform", "p1_uniform", "p2_uniform", "p3_uniform",
                  "elapsed_time_uniform", "speed_uniform", "dissipation_uniform",
                  "vorticity_scale_uniform", "alpha_uniform", "rbeta_uniform">>
del_buffers == <<_velocity_buffer[1], _velocity_buffer[2], _pressure_buffer[1],
                 _pressure_buffer[2], _divergence_buffer, _vorticity_buffer,
                 _obstacles_buffer>>
del_kernels == <<"AddVelocity", "InitBoundaries", "AdvectVelocity", "Divergence", "Poisson",
                 "SubtractGradient", "CalcVorticity", "ApplyVorticity", "AddCircleObstacle",
                 "AddTriangleObstacle", "ClearBuffer", "Viscosity">>
\* a teardown that frees the buffers before the uniforms
del_sequence_buffers_first == del_buffers \o del_uniforms \o del_kernels

del_sequence == del_uniforms \o del_buffers \o del_kernels

RECURSIVE destroy_all(_, _)
destroy_all(m, hs) ==
    IF hs = <<>> THEN m ELSE destroy_all(destroy(m, Head(hs)), Tail(hs))

\* an initial binding that puts the divergence buffer into the VORTICITY slot as well
_init_compute_kernels_shared_scratch(m, width, height) ==
    LET is1 == setUniform(m, "size_uniform", <<Float(width, 1), Float(height, 1), Zero, Zero>>)
        is2 == setBuffer(is1, "VELOCITY_IN", _velocity_buffer[is1.VELOCITY_READ + 1], "Read")
        is3 == setBuffer(is2, "VELOCITY_OUT", _velocity_buffer[is2.VELOCITY_WRITE + 1], "Write")
        is4 == setBuffer(is3, "PRESSURE_IN", _pressure_buffer[is3.PRESSURE_READ + 1], "Read")
        is5 == setBuffer(is4, "PRESSURE_OUT", _pressure_buffer[is4.PRESSURE_WRITE + 1], "Write")
        is6 == setBuffer(is5, "DIVERGENCE", _divergence_buffer, "WRITE")
        is7 == setBuffer(is6, "VORTICITY", _divergence_buffer, "WRITE")
    IN  setBuffer(is7, "OBSTACLES", _obstacles_buffer, "WRITE")

_init_compute_kernels(m, width, height) ==
    LET ic1 == setUniform(m, "size_uniform", <<Float(width, 1), Float(height, 1), Zero, Zero>>)
        ic2 == setBuffer(ic1, "VELOCITY_IN", _velocity_buffer[ic1.VELOCITY_READ + 1], "Read")
        ic3 == setBuffer(ic2, "VELOCITY_OUT", _velocity_buffer[ic2.VELOCITY_WRITE + 1], "Write")
        ic4 == setBuffer(ic3, "PRESSURE_IN", _pressure_buffer[ic3.PRESSURE_READ + 1], "Read")
        ic5 == setBuffer(ic4, "PRESSURE_OUT", _pressure_buffer[ic4.PRESSURE_WRITE + 1], "Write")
        ic6 == setBuffer(ic5, "DIVERGENCE", _divergence_buffer, "WRITE")
        ic7 == setBuffer(ic6, "VORTICITY", _vorticity_buffer, "WRITE")
    IN  setBuffer(ic7, "OBSTACLES", _obstacles_buffer, "WRITE")

(* ------------------------------ actions -------------------------------- *)
\* the object and the backend after a method body ended in m
Commit(m) ==
    /\ VELOCITY_READ' = m.VELOCITY_READ
    /\ VELOCITY_WRITE' = m.VELOCITY_WRITE
    /\ PRESSURE_READ' = m.PRESSURE_READ
    /\ PRESSURE_WRITE' = m.PRESSURE_WRITE
    /\ slots' = m.slots
    /\ obstacles' = m.obstacles
    /\ destroyed' = m.destroyed
    /\ trace' = m.trace

\* no method is called on the object once it has been finalised
Live == call.op # "__del__"

\* FluidSimulator(width, height)
Construct(width, height) ==
        LET m == _init_compute_kernels(
                     [VELOCITY_READ |-> 0, VELOCITY_WRITE |-> 1,
                      PRESSURE_READ |-> 0, PRESSURE_WRITE |-> 1,
                      slots |-> [s \in Slots |-> Unbound], obstacles |-> {},
                      destroyed |-> [h \in Handles |-> 0],
                      trace |-> <<>>, exc |-> "none"], width, height)
        IN  /\ _width = width
            /\ _height = height
            /\ _num_cells = width * height
            /\ _num_groups_x = ceil_div(width, NUM_THREADS)
            /\ _num_groups_y = ceil_div(height, NUM_THREADS)
            /\ _speed = Float(500, 1)
            /\ _iterations = 50
            /\ _dissipation = Float(1, 1)
            /\ _vorticity = Float(0, 1)
            /\ _viscosity = Float(1, 10)
            /\ simulate = TRUE
            /\ VELOCITY_READ = m.VELOCITY_READ
            /\ VELOCITY_WRITE = m.VELOCITY_WRITE
            /\ PRESSURE_READ = m.PRESSURE_READ
            /\ PRESSURE_WRITE = m.PRESSURE_WRITE
            /\ slots = m.slots
            /\ obstacles = m.obstacles
            /\ destroyed = m.destroyed
            /\ trace = m.trace
            /\ call = [op |-> "__init__", args |-> <<width, height>>, exc |-> m.exc]
            /\ ticks = 0

Init == \E size \in Sizes : Construct(size[1], size[2])

\* a setter call that raised, or a call that touched nothing but the record of itself
Returned(op, args, exc) ==
    /\ call' = [op |-> op, args |-> args, exc |-> exc]
    /\ trace' = <<>>
    /\ UNCHANGED <<geometry, simulate, roles, slots, obstacles, destroyed, ticks>>

\* a setter that lets zero through
set_speed_nonneg(value) ==
    /\ Live
    /\ IF value.n >= 0
       THEN _speed' = value /\ Returned("speed", <<value>>, "none")
       ELSE UNCHANGED _speed /\ Returned("speed", <<value>>, "ValueError")
    /\ UNCHANGED <<_iterations, _dissipation, _vorticity, _viscosity>>

set_speed(value) ==
    /\ Live
    /\ IF value.n > 0
       THEN _speed' = value /\ Returned("speed", <<value>>, "none")
       ELSE UNCHANGED _speed /\ Returned("speed", <<value>>, "ValueError")
    /\ UNCHANGED <<_iterations, _dissipation, _vorticity, _viscosity>>

set_iterations(value) ==
    /\ Live
    /\ IF value > 0
       THEN _iterations' = value /\ Returned("iterations", <<value>>, "none")
       ELSE UNCHANGED _iterations /\ Returned("iterations", <<value>>, "ValueError")
    /\ UNCHANGED <<_speed, _dissipation, _vorticity, _viscosity>>

set_dissipation(value) ==
    /\ Live
    /\ IF value.n > 0
       THEN _dissipation' = value /\ Returned("dissipation", <<value>>, "none")
       ELSE UNCHANGED _dissipation /\ Returned("dissipation", <<value>>, "ValueError")
    /\ UNCHANGED <<_speed, _iterations, _vorticity, _viscosity>>

set_vorticity(value) ==
    /\ Live
    /\ IF value.n >= 0
       THEN _vorticity' = value /\ Returned("vorticity", <<value>>, "none")
       ELSE UNCHANGED _vorticity /\ Returned("vorticity", <<value>>, "ValueError")
    /\ UNCHANGED <<_speed, _iterations, _dissipation, _viscosity>>

\* a viscosity setter that lets zero through
set_viscosity_nonneg(value) ==
    /\ Live
    /\ IF value.n >= 0
       THEN _viscosity' = value /\ Returned("viscosity", <<value>>, "none")
       ELSE UNCHANGED _viscosity /\ Returned("viscosity", <<value>>, "ValueError")
    /\ UNCHANGED <<_speed, _iterations, _dissipation, _vorticity>>

set_viscosity(value) ==
    /\ Live
    /\ IF value.n > 0
       THEN _viscosity' = value /\ Returned("viscosity", <<value>>, "none")
       ELSE UNCHANGED _viscosity /\ Returned("viscosity", <<value>>, "ValueError")
    /\ UNCHANGED <<_speed, _iterations, _dissipation, _vorticity>>

\* sim.simulate = flag
set_simulate(flag) ==
    /\ Live
    /\ simulate' = flag
    /\ call' = [op |-> "simulate", args |-> <<flag>>, exc |-> "none"]
    /\ trace' = <<>>
    /\ UNCHANGED <<geometry, tunables, roles, slots, obstacles, destroyed, ticks>>

add_velocity(position, velocity, radius) ==
    /\ Live
    /\ LET m == add_velocity_body(Machine, position, velocity, radius)
       IN  /\ Commit(m)
           /\ call' = [op |-> "add_velocity", args |-> <<position, velocity, radius>>,
                       exc |-> m.exc]
    /\ UNCHANGED <<geometry, tunables, simulate, ticks>>

add_circle_obstacle(position, radius, static) ==
    /\ Live
    /\ LET m == add_circle_obstacle_body(Machine, position, radius, static)
       IN  /\ Commit(m)
           /\ call' = [op |-> "add_circle_obstacle", args |-> <<position, radius, static>>,
                       exc |-> m.exc]
    /\ UNCHANGED <<geometry, tunables, simulate, ticks>>

add_triangle_obstacle(p1, p2, p3, static) ==
    /\ Live
    /\ LET m == add_triangle_obstacle_body(Machine, p1, p2, p3, static)
       IN  /\ Commit(m)
           /\ call' = [op |-> "add_triangle_obstacle", args |-> <<p1, p2, p3, static>>,
                       exc |-> m.exc]
    /\ UNCHANGED <<geometry, tunables, simulate, ticks>>

update(time_delta) ==
    /\ Live
    /\ simulate => ticks < MaxTicks
    /\ LET m == update_body(Machine, time_delta)
       IN  /\ Commit(m)
           /\ call' = [op |-> "update", args |-> <<time_delta>>, exc |-> m.exc]
    /\ ticks' = IF simulate THEN ticks + 1 ELSE ticks
    /\ UNCHANGED <<geometry, tunables, simulate>>

__del__ ==
    /\ Live
    /\ LET m == destroy_all(Machine, del_sequence)
       IN  /\ Commit(m)
           /\ call' = [op |-> "__del__", args |-> <<>>, exc |-> m.exc]
    /\ UNCHANGED <<geometry, tunables, simulate, ticks>>

Next ==
    \/ \E value \in Numbers : set_speed(value)
    \/ \E value \in IterationCounts : set_iterations(value)
    \/ \E value \in Numbers : set_dissipation(value)
    \/ \E value \in VorticityScales : set_vorticity(value)
    \/ \E value \in Numbers : set_viscosity(value)
    \/ \E flag \in BOOLEAN : set_simulate(flag)
    \/ \E position \in Positions, velocity \in Velocities, radius \in Radii :
           add_velocity(position, velocity, radius)
    \/ \E position \in Positions, radius \in Radii, static \in BOOLEAN :
           add_circle_obstacle(position, radius, static)
    \/ \E t \in Triangles, static \in BOOLEAN :
           add_triangle_obstacle(t[1], t[2], t[3], static)
    \/ \E time_delta \in TimeDeltas : update(time_delta)
    \/ __del__

Spec == Init /\ [][Next]_vars

\* the numerical parameters over wider ranges: every grid size up to MaxWidth columns and
\* several viscosities, with the operations that compute with them
InitNumeric == \E width \in Widths, height \in Heights : Construct(width, height)

NextNumeric ==
    \/ \E value \in Viscosities : set_viscosity(value)
    \/ \E position \in Positions, velocity \in Velocities, radius \in Radii :
           add_velocity(position, velocity, radius)
    \/ \E position \in Positions, radius \in Radii, static \in BOOLEAN :
           add_circle_obstacle(position, radius, static)
    \/ \E t \in Triangles, static \in BOOLEAN :
           add_triangle_obstacle(t[1], t[2], t[3], static)
    \/ \E time_delta \in TimeDeltas : update(time_delta)

SpecNumeric == InitNumeric /\ [][NextNumeric]_vars

(* ------------------------ reading the trace ---------------------------- *)
Token(e) ==
    IF e.ev = "setUniform" THEN e.uniform
    ELSE IF e.ev = "dispatch" THEN e.kernel
    ELSE e.name

\* the uniform writes, dispatches and role swaps of a trace, in order
Tokens(t) ==
    LET sel == SelectSeq(t, LAMBDA e : e.ev \in {"setUniform", "dispatch", "swap"})
    IN  [i \in DOMAIN sel |-> Token(sel[i])]

\* the kernels dispatched in a trace, in order
Dispatched(t) ==
    LET sel == SelectSeq(t, LAMBDA e : e.ev = "dispatch")
    IN  [i \in DOMAIN sel |-> sel[i].kernel]

Count(seq, x) == Cardinality({i \in DOMAIN seq : seq[i] = x})

\* <<a, b, a, b, ...>> with n pairs
Pairs(a, b, n) == [i \in 1..(2 * n) |-> IF i % 2 = 1 THEN a ELSE b]

\* the most recent call was an update made while simulate was enabled
ActiveTick == call.op = "update" /\ simulate

(* ------------------------------ claims --------------------------------- *)

\* C1: an active tick with iterations = N issues the six per-tick uniform writes first,
\* then InitBoundaries, AdvectVelocity, CalcVorticity, ApplyVorticity, Viscosity x N,
\* Divergence, ClearBuffer, Poisson x N, SubtractGradient, ClearBuffer, with a role swap
\* after AdvectVelocity, ApplyVorticity, every Viscosity, SubtractGradient (velocity) and
\* every Poisson (pressure) and after no other dispatch.
C1_TickOrder ==
    ActiveTick =>
        Tokens(trace) =
            <<"elapsed_time_uniform", "speed_uniform", "dissipation_uniform",
              "vorticity_scale_uniform", "alpha_uniform", "rbeta_uniform",
              "InitBoundaries", "AdvectVelocity", "swap_velocity",
              "CalcVorticity", "ApplyVorticity", "swap_velocity">>
            \o Pairs("Viscosity", "swap_velocity", _iterations)
            \o <<"Divergence", "ClearBuffer">>
            \o Pairs("Poisson", "swap_pressure", _iterations)
            \o <<"SubtractGradient", "swap_velocity", "ClearBuffer">>

\* C2: an active tick with iterations = N issues through bgfx.dispatch exactly N Viscosity,
\* N Poisson, one each of InitBoundaries, AdvectVelocity, CalcVorticity, ApplyVorticity,
\* Divergence, SubtractGradient and two ClearBuffer dispatches: 2N + 8 in all.
C2_TickDispatchCount ==
    ActiveTick =>
        LET d == Dispatched(trace)
        IN  /\ Count(d, "Viscosity") = _iterations
            /\ Count(d, "Poisson") = _iterations
            /\ \A k \in {"InitBoundaries", "AdvectVelocity", "CalcVorticity",
                         "ApplyVorticity", "Divergence", "SubtractGradient"} :
                   Count(d, k) = 1
            /\ Count(d, "ClearBuffer") = 2
            /\ Len(d) = 2 * _iterations + 8

\* C3: at every kernel dispatch of every operation, VELOCITY_IN / VELOCITY_OUT are bound to
\* the velocity buffers at indices VELOCITY_READ / VELOCITY_WRITE and PRESSURE_IN /
\* PRESSURE_OUT to the pressure buffers at indices PRESSURE_READ / PRESSURE_WRITE.
C3_NoStaleBinding ==
    \A i \in DOMAIN trace :
        trace[i].ev = "dispatch" =>
            /\ trace[i].bound["VELOCITY_IN"].buffer = _velocity_buffer[trace[i].VELOCITY_READ + 1]
            /\ trace[i].bound["VELOCITY_OUT"].buffer = _velocity_buffer[trace[i].VELOCITY_WRITE + 1]
            /\ trace[i].bound["PRESSURE_IN"].buffer = _pressure_buffer[trace[i].PRESSURE_READ + 1]
            /\ trace[i].bound["PRESSURE_OUT"].buffer = _pressure_buffer[trace[i].PRESSURE_WRITE + 1]

\* a dispatch that ran after both an odd number of velocity swaps and an odd number of
\* pressure swaps
C3_Witness ==
    \E i \in DOMAIN trace :
        /\ trace[i].ev = "dispatch"
        /\ trace[i].VELOCITY_READ = 1
        /\ trace[i].PRESSURE_READ = 1

\* C4: in every reachable state the velocity roles are 0 and 1 and differ, and so do the
\* pressure roles.
C4_RolesDistinct ==
    /\ {VELOCITY_READ, VELOCITY_WRITE} = {0, 1}
    /\ VELOCITY_READ # VELOCITY_WRITE
    /\ {PRESSURE_READ, PRESSURE_WRITE} = {0, 1}
    /\ PRESSURE_READ # PRESSURE_WRITE

\* both pairs have been swapped an odd number of times
C4_Witness == VELOCITY_READ = 1 /\ PRESSURE_READ = 1 /\ call.op = "update"

\* C5: while simulate is disabled, update writes no uniform, dispatches nothing, rebinds no
\* slot and leaves the roles and the tunables as they were.
C5_DisabledUpdateIsNoOp ==
    [][(call'.op = "update" /\ ~simulate) =>
           /\ trace' = <<>>
           /\ call'.exc = "none"
           /\ UNCHANGED <<roles, slots, tunables, obstacles, destroyed>>]_vars

\* update returned while simulate was disabled, after earlier calls had swapped the roles
C5_Witness == call.op = "update" /\ ~simulate /\ VELOCITY_READ = 1 /\ trace = <<>>

\* C6: a setter given a valid value (> 0 for speed, iterations, dissipation, viscosity;
\* >= 0 for vorticity) stores it, so that the getter returns it; given an invalid value
\* it raises and leaves the stored value, the other tunables and the roles unchanged.
C6_Setters ==
    [][/\ call'.op = "speed" =>
             IF call'.args[1].n > 0
             THEN call'.exc = "none" /\ _speed' = call'.args[1]
                  /\ UNCHANGED <<_iterations, _dissipation, _vorticity, _viscosity, roles>>
             ELSE call'.exc = "ValueError" /\ UNCHANGED <<tunables, roles>>
       /\ call'.op = "iterations" =>
             IF call'.args[1] > 0
             THEN call'.exc = "none" /\ _iterations' = call'.args[1]
                  /\ UNCHANGED <<_speed, _dissipation, _vorticity, _viscosity, roles>>
             ELSE call'.exc = "ValueError" /\ UNCHANGED <<tunables, roles>>
       /\ call'.op = "dissipation" =>
             IF call'.args[1].n > 0
             THEN call'.exc = "none" /\ _dissipation' = call'.args[1]
                  /\ UNCHANGED <<_speed, _iterations, _vorticity, _viscosity, roles>>
             ELSE call'.exc = "ValueError" /\ UNCHANGED <<tunables, roles>>
       /\ call'.op = "vorticity" =>
             IF call'.args[1].n >= 0
             THEN call'.exc = "none" /\ _vorticity' = call'.args[1]
                  /\ UNCHANGED <<_speed, _iterations, _dissipation, _viscosity, roles>>
             ELSE call'.exc = "ValueError" /\ UNCHANGED <<tunables, roles>>
       /\ call'.op = "viscosity" =>
             IF call'.args[1].n > 0
             THEN call'.exc = "none" /\ _viscosity' = call'.args[1]
                  /\ UNCHANGED <<_speed, _iterations, _dissipation, _vorticity, roles>>
             ELSE call'.exc = "ValueError" /\ UNCHANGED <<tunables, roles>>]_vars

\* speed = 0 was refused and the stored speed is still the default
C6_Witness ==
    /\ call.op = "speed" /\ call.args[1] = Zero /\ call.exc = "ValueError"
    /\ _speed = Float(500, 1)

\* C7: with the obstacles field read as the set of obstacle writes since its last clear,
\* the obstacles added before tick K are gone from the field once tick K has run its final
\* ClearBuffer, and those added between tick K and tick K + 1 are what tick K + 1's
\* InitBoundaries dispatch sees.  (An obstacle write carries the number of ticks made
\* before it; after tick K that number is below ticks exactly for the writes made before
\* tick K.)
C7_ObstacleWindow ==
    /\ [](ActiveTick => \A o \in obstacles : o >= ticks)
    /\ [][(call'.op = "update" /\ simulate) =>
              \A i \in DOMAIN trace' :
                  (trace'[i].ev = "dispatch" /\ trace'[i].kernel = "InitBoundaries") =>
                      trace'[i].obstacles = obstacles]_vars

\* C8: after teardown every uniform created by _create_uniforms, each of the seven buffers
\* and each of the twelve kernels has been destroyed exactly once.
C8_AllHandlesDestroyed ==
    call.op = "__del__" => \A h \in Handles : destroyed[h] = 1

\* the kind of a handle: 0 for a uniform, 1 for a buffer, 2 for a kernel
Kind(h) == IF h \in Range(Uniforms) THEN 0 ELSE IF h \in Range(Buffers) THEN 1 ELSE 2

\* C9: in teardown every uniform destroy precedes every buffer destroy, and every buffer
\* destroy precedes every kernel destroy.
C9_TeardownOrder ==
    call.op = "__del__" =>
        \A i, j \in DOMAIN trace :
            (i < j /\ trace[i].ev = "destroy" /\ trace[j].ev = "destroy") =>
                Kind(trace[i].handle) <= Kind(trace[j].handle)

\* teardown has run and destroyed handles of all three kinds
C9_Witness ==
    /\ call.op = "__del__"
    /\ \A k \in 0..2 : \E i \in DOMAIN trace : trace[i].ev = "destroy" /\ Kind(trace[i].handle) = k

\* C10: every add_velocity call writes the position, velocity and radius uniforms, then
\* dispatches AddVelocity once over (groups_x, groups_y, 1), then swaps the velocity roles
\* once and rebinds; the pressure roles, the pressure bindings and the tunables stay as
\* they were, whatever the simulate flag.
C10_AddVelocity ==
    [][call'.op = "add_velocity" =>
           /\ Tokens(trace') = <<"position_uniform", "velocity_uniform", "radius_uniform",
                                 "AddVelocity", "swap_velocity">>
           /\ \A i \in DOMAIN trace' :
                  trace'[i].ev = "dispatch" =>
                      trace'[i].groups = <<_num_groups_x, _num_groups_y, 1>>
           /\ VELOCITY_READ' = VELOCITY_WRITE
           /\ VELOCITY_WRITE' = VELOCITY_READ
           /\ slots'["VELOCITY_IN"].buffer = _velocity_buffer[VELOCITY_READ' + 1]
           /\ slots'["VELOCITY_OUT"].buffer = _velocity_buffer[VELOCITY_WRITE' + 1]
           /\ slots'["PRESSURE_IN"] = slots["PRESSURE_IN"]
           /\ slots'["PRESSURE_OUT"] = slots["PRESSURE_OUT"]
           /\ UNCHANGED <<PRESSURE_READ, PRESSURE_WRITE, tunables>>]_vars

\* C11: add_circle_obstacle and add_triangle_obstacle each issue exactly one dispatch, of
\* their own kernel, and swap nothing: the role indices and every slot binding are the
\* same after the call as before it.
C11_ObstacleCallsSwapNothing ==
    [][/\ call'.op = "add_circle_obstacle" =>
             /\ Dispatched(trace') = <<"AddCircleObstacle">>
             /\ Count(Tokens(trace'), "swap_velocity") = 0
             /\ Count(Tokens(trace'), "swap_pressure") = 0
             /\ UNCHANGED <<roles, slots>>
       /\ call'.op = "add_triangle_obstacle" =>
             /\ Dispatched(trace') = <<"AddTriangleObstacle">>
             /\ Count(Tokens(trace'), "swap_velocity") = 0
             /\ Count(Tokens(trace'), "swap_pressure") = 0
             /\ UNCHANGED <<roles, slots>>]_vars

\* an obstacle call returned in a state whose roles earlier calls had swapped
C11_Witness ==
    /\ call.op \in {"add_circle_obstacle", "add_triangle_obstacle"}
    /\ Len(Dispatched(trace)) = 1
    /\ VELOCITY_READ = 1

\* C12: viscosity > 0 in every reachable state, so every active tick takes the viscosity
\* guard, runs the Viscosity stage exactly iterations times and never divides by zero
\* when it computes centre_factor.
C12_ViscosityPositive ==
    /\ _viscosity.n > 0
    /\ ActiveTick =>
           /\ Count(Dispatched(trace), "Viscosity") = _iterations
           /\ call.exc # "ZeroDivisionError"

\* an active tick ran after zero had been offered to the viscosity setter and refused
\* and a valid viscosity had been stored
C12_Witness ==
    /\ ActiveTick
    /\ _viscosity = Float(1, 1)
    /\ Count(Dispatched(trace), "Viscosity") = _iterations

\* C13: every active tick runs to completion: update returns normally after its whole
\* dispatch sequence, SubtractGradient and the final obstacles ClearBuffer included.
C13_TickCompletes ==
    ActiveTick =>
        /\ call.exc = "none"
        /\ Count(Dispatched(trace), "SubtractGradient") = 1
        /\ Len(trace) > 0
        /\ trace[Len(trace)] = [ev |-> "setBuffer", slot |-> "OBSTACLES",
                                buffer |-> _obstacles_buffer, access |-> "WRITE"]

\* the payloads written to a uniform in a trace, in order
Written(t, uniform) ==
    LET sel == SelectSeq(t, LAMBDA e : e.ev = "setUniform" /\ e.uniform = uniform)
    IN  [i \in DOMAIN sel |-> sel[i].value]

\* C14: in an active tick the value uploaded to alpha is 1 / v and the value uploaded to
\* rBeta is 1 / (4 + 1 / v), for the viscosity v stored at that tick (v = 1/10 gives 10
\* and 1/14).  Stated on exact rationals: alpha * v = 1 and rBeta * (4 * v + 1) = v.
C14_DerivedFactors ==
    ActiveTick =>
        LET alpha == Written(trace, "alpha_uniform")
            rbeta == Written(trace, "rbeta_uniform")
        IN  /\ Len(alpha) = 1
            /\ Len(rbeta) = 1
            /\ alpha[1][1].n * _viscosity.n = alpha[1][1].d * _viscosity.d
            /\ rbeta[1][1].n * (4 * _viscosity.n + _viscosity.d) = rbeta[1][1].d * _viscosity.n
            /\ \A i \in 2..4 : alpha[1][i] = Zero /\ rbeta[1][i] = Zero

\* a tick after the viscosity was set to 3/2 uploaded 2/3 and 3/14
C14_Witness ==
    /\ ActiveTick
    /\ _viscosity = Float(3, 2)
    /\ Written(trace, "alpha_uniform") = <<(<<Float(2, 3), Zero, Zero, Zero>>)>>
    /\ Written(trace, "rbeta_uniform") = <<(<<Float(3, 14), Zero, Zero, Zero>>)>>

\* the dispatch events of a trace, in order
Dispatches(t) == SelectSeq(t, LAMBDA e : e.ev = "dispatch")

\* g is the least integer with g * T >= n
LeastCover(g, n, T) == g * T >= n /\ (g - 1) * T < n

\* C15: the group counts set at construction are the least integers with
\* groups_x * T >= width and groups_y * T >= height (the same rounding holds for every tile
\* size T >= 1), every dispatch of every operation uses exactly (groups_x, groups_y, 1), and
\* no operation changes the geometry after construction.
C15_GroupCounts ==
    /\ [](/\ LeastCover(_num_groups_x, _width, NUM_THREADS)
          /\ LeastCover(_num_groups_y, _height, NUM_THREADS)
          /\ \A T \in 1..MaxTile :
                 /\ LeastCover(ceil_div(_width, T), _width, T)
                 /\ LeastCover(ceil_div(_height, T), _height, T)
          /\ \A i \in DOMAIN Dispatches(trace) :
                 Dispatches(trace)[i].groups = <<_num_groups_x, _num_groups_y, 1>>)
    /\ [][UNCHANGED geometry]_vars

\* a 500-column grid got 32 column groups and a tick dispatched with them
C15_Witness ==
    /\ _width = 500
    /\ _height = 512
    /\ _num_groups_x = 32
    /\ _num_groups_y = 32
    /\ ActiveTick
    /\ Len(Dispatches(trace)) > 0
    /\ Dispatches(trace)[1].groups = <<32, 32, 1>>

\* the role indices in force at a dispatch
RolesAt(e) == <<e.VELOCITY_READ, e.VELOCITY_WRITE, e.PRESSURE_READ, e.PRESSURE_WRITE>>

\* the position in a sequence of dispatches of the first one of a kernel (0 if none)
First(d, kernel) ==
    IF \E i \in DOMAIN d : d[i].kernel = kernel
    THEN CHOOSE i \in DOMAIN d : /\ d[i].kernel = kernel
                                 /\ \A j \in 1..(i - 1) : d[j].kernel # kernel
    ELSE 0

\* C16: in an active tick the first ClearBuffer dispatch has the pressure buffer at index
\* PRESSURE_READ bound to GENERIC; the clear step changes no role index (the roles at the
\* Divergence dispatch before it, at the clear and at the dispatch after it are the same);
\* and the cleared buffer is the one bound to PRESSURE_IN at the first Poisson dispatch.
C16_ClearTargetsPressureRead ==
    ActiveTick =>
        LET d == Dispatches(trace)
            c == First(d, "ClearBuffer")
            p == First(d, "Poisson")
        IN  /\ c > 1
            /\ d[c].bound["GENERIC"] =
                   [buffer |-> _pressure_buffer[d[c].PRESSURE_READ + 1], access |-> "WRITE"]
            /\ d[c - 1].kernel = "Divergence"
            /\ RolesAt(d[c - 1]) = RolesAt(d[c])
            /\ IF p > 0
               THEN /\ p = c + 1
                    /\ RolesAt(d[p]) = RolesAt(d[c])
                    /\ d[p].bound["PRESSURE_IN"].buffer = d[c].bound["GENERIC"].buffer
               ELSE /\ c = Len(d)
                    /\ PRESSURE_READ = d[c].PRESSURE_READ
                    /\ PRESSURE_WRITE = d[c].PRESSURE_WRITE

\* a tick that started with PRESSURE_READ = 1 cleared pressure1 and solved from it
C16_Witness ==
    /\ ActiveTick
    /\ LET d == Dispatches(trace)
           c == First(d, "ClearBuffer")
           p == First(d, "Poisson")
       IN  /\ c > 0
           /\ p > 0
           /\ d[c].PRESSURE_READ = 1
           /\ d[c].bound["GENERIC"].buffer = "pressure1"
           /\ d[p].bound["PRESSURE_IN"].buffer = "pressure1"

\* the kernels that write a new velocity generation
VelocityProducers == {"AdvectVelocity", "ApplyVorticity", "Viscosity", "SubtractGradient",
                      "AddVelocity"}

\* C17: each stage consumes the previous stage's output: the buffer bound to VELOCITY_OUT at
\* a velocity-producing dispatch is bound to VELOCITY_IN at the next dispatch (for the last
\* dispatch of a call, in the bindings the call leaves behind), and the buffer bound to
\* PRESSURE_OUT at a Poisson dispatch is bound to PRESSURE_IN at the next Poisson dispatch
\* or, for the last one, at the SubtractGradient dispatch.
C17_StagesChain ==
    LET d == Dispatches(trace)
    IN  /\ \A i \in DOMAIN d :
               d[i].kernel \in VelocityProducers =>
                   d[i].bound["VELOCITY_OUT"].buffer =
                       IF i < Len(d) THEN d[i + 1].bound["VELOCITY_IN"].buffer
                                     ELSE slots["VELOCITY_IN"].buffer
        /\ \A i \in DOMAIN d :
               d[i].kernel = "Poisson" =>
                   /\ i < Len(d)
                   /\ d[i + 1].kernel \in {"Poisson", "SubtractGradient"}
                   /\ d[i + 1].bound["PRESSURE_IN"].buffer = d[i].bound["PRESSURE_OUT"].buffer

\* the access a binding grants, whichever spelling of the enumeration member was used
AccessKind(a) == IF a \in {"Read", "READ"} THEN "read"
                 ELSE IF a \in {"Write", "WRITE"} THEN "write" ELSE a

\* what a slot is bound to: the buffer and the access granted
BoundTo(table, slot) == <<table[slot].buffer, AccessKind(table[slot].access)>>

\* C18: from any reachable state, two consecutive velocity (pressure) flips restore the
\* READ/WRITE roles and the VELOCITY_IN / VELOCITY_OUT (PRESSURE_IN / PRESSURE_OUT) bindings;
\* a single flip changes both role indices of its field and leaves the other field's roles.
C18_FlipInvolution ==
    LET v1 == _flip_velocity_buffer(Machine)
        v2 == _flip_velocity_buffer(v1)
        p1 == _flip_pressure_buffer(Machine)
        p2 == _flip_pressure_buffer(p1)
    IN  /\ <<v2.VELOCITY_READ, v2.VELOCITY_WRITE, v2.PRESSURE_READ, v2.PRESSURE_WRITE>> = roles
        /\ BoundTo(v2.slots, "VELOCITY_IN") = BoundTo(slots, "VELOCITY_IN")
        /\ BoundTo(v2.slots, "VELOCITY_OUT") = BoundTo(slots, "VELOCITY_OUT")
        /\ v1.VELOCITY_READ # VELOCITY_READ
        /\ v1.VELOCITY_WRITE # VELOCITY_WRITE
        /\ <<v1.PRESSURE_READ, v1.PRESSURE_WRITE>> = <<PRESSURE_READ, PRESSURE_WRITE>>
        /\ <<p2.VELOCITY_READ, p2.VELOCITY_WRITE, p2.PRESSURE_READ, p2.PRESSURE_WRITE>> = roles
        /\ BoundTo(p2.slots, "PRESSURE_IN") = BoundTo(slots, "PRESSURE_IN")
        /\ BoundTo(p2.slots, "PRESSURE_OUT") = BoundTo(slots, "PRESSURE_OUT")
        /\ p1.PRESSURE_READ # PRESSURE_READ
        /\ p1.PRESSURE_WRITE # PRESSURE_WRITE
        /\ <<p1.VELOCITY_READ, p1.VELOCITY_WRITE>> = <<VELOCITY_READ, VELOCITY_WRITE>>

\* a state with both fields' roles swapped, in which one flip swaps them back and the
\* second restores them
C18_Witness ==
    /\ roles = <<1, 0, 1, 0>>
    /\ _flip_velocity_buffer(Machine).VELOCITY_READ = 0
    /\ _flip_velocity_buffer(_flip_velocity_buffer(Machine)).VELOCITY_READ = 1
    /\ _flip_pressure_buffer(Machine).PRESSURE_READ = 0
    /\ _flip_pressure_buffer(_flip_pressure_buffer(Machine)).PRESSURE_READ = 1

\* the slots every kernel reads its fields from; GENERIC is the eighth
FixedSlots == Slots \ {"GENERIC"}

C20_SwapParity ==
    [][(call'.op = "update" /\ simulate) =>
           /\ Count(Tokens(trace'), "swap_velocity") = _iterations + 3
           /\ Count(Tokens(trace'), "swap_pressure") = _iterations
           /\ (VELOCITY_READ' = VELOCITY_READ) <=> (_iterations % 2 = 1)
           /\ (PRESSURE_READ' = PRESSURE_READ) <=> (_iterations % 2 = 0)]_vars

====
